---- MODULE Spec2Model ----
(***************************************************************************)
(* A model of the documentation browser of garden.docbrowser              *)
(* (src/docbrowser.py): the ObjectInspector tree builder, a recursive      *)
(* generator resumed by Clock ticks, and the handlers that drive it.       *)
(*                                                                         *)
(* Strings that the code tests or builds character by character (module    *)
(* qualified names, node labels) are sequences of one-character strings;   *)
(* documentation texts are sequences of lines.                             *)
(***************************************************************************)
EXTENDS Integers, Sequences, FiniteSets, TLC

(***************************************************************************)
(* Bounds of the model.                                                    *)
(***************************************************************************)
\* load_documentation callbacks the host may have pending on the Clock
MaxPending == 1

(***************************************************************************)
(* Text helpers.                                                           *)
(***************************************************************************)
\* one line of a documentation text: leading blanks and the rest
Line(n, t) == [indent |-> n, text |-> t]

\* the empty line ''
IsEmptyLine(l) == l.indent = 0 /\ l.text = ""

Min(S) == CHOOSE m \in S : \A k \in S : m <= k

\* the one element of a singleton set
The(S) == CHOOSE x \in S : TRUE

\* Python's  a in b  on strings: a occurs in b as a contiguous substring
Contains(a, b) ==
    \E i \in 0..(Len(b) - Len(a)) : SubSeq(b, i + 1, i + Len(a)) = a

\* a is a prefix of b (str.startswith)
StartsWith(b, a) == Len(a) <= Len(b) /\ SubSeq(b, 1, Len(a)) = a

\* '%d' % n for n >= 0
Digit(d) == <<"0", "1", "2", "3", "4", "5", "6", "7", "8", "9">>[d + 1]

RECURSIVE FormatInt(_)
FormatInt(n) == IF n < 10 THEN <<Digit(n)>>
                ELSE FormatInt(n \div 10) \o <<Digit(n % 10)>>

(***************************************************************************)
(* The interpreter's objects: what import_module and inspect see.  Every   *)
(* object has a kind, the attributes the code reads (__name__, __module__, *)
(* __doc__), its members as inspect.getmembers lists them (sorted by       *)
(* attribute name) and the introspection step, if any, that raises.        *)
(***************************************************************************)
NoDoc == [has |-> FALSE, lines |-> <<>>]
Doc(ls) == [has |-> TRUE, lines |-> ls]

MkObj(k, n, m, d, mem, f) ==
    [kind |-> k, name |-> n, module |-> m, doc |-> d, members |-> mem,
     fault |-> f]

N_p   == <<"p">>
N_pa  == <<"p", ".", "a">>
N_pb  == <<"p", ".", "b">>
N_q   == <<"q">>
N_qc  == <<"q", ".", "c">>
N_qcd == <<"q", ".", "c", ".", "d">>
N_xq  == <<"x", "q">>
N_o   == <<"o">>
N_f   == <<"f">>
N_g   == <<"g">>
N_h   == <<"h">>
N_z   == <<"z">>
N_s   == <<"s">>
N_builtins == <<"b", "i">>

ObjIds == {"pkg", "pkg.a", "pkg.b", "Bar", "q", "q.c", "q.c.d", "xq", "o",
           "Foo", "Baz", "Qux", "fn", "len", "meth", "slot", "f", "g", "h",
           "K", "answer"}

ObjDef(id) ==
    CASE id = "pkg" ->
           MkObj("module", N_p, <<>>, Doc(<<Line(0, "pkg doc")>>),
                 <<<<"a", "pkg.a">>, <<"b", "pkg.b">>>>, "none")
      [] id = "pkg.a" ->
           MkObj("module", N_pa, <<>>, NoDoc, <<<<"pkg", "pkg">>>>, "none")
      [] id = "pkg.b" ->
           MkObj("module", N_pb, <<>>, Doc(<<Line(0, "")>>),
                 <<<<"Bar", "Bar">>>>, "none")
      [] id = "Bar" ->
           MkObj("class", <<"B">>, N_pb, NoDoc, <<<<"__init__", "slot">>>>,
                 "none")
      [] id = "q" ->
           MkObj("module", N_q, <<>>,
                 Doc(<<Line(0, ""), Line(4, "q doc"), Line(6, "more"),
                       Line(4, "")>>),
                 <<<<"Baz", "Baz">>, <<"Foo", "Foo">>, <<"answer", "answer">>,
                   <<"c", "q.c">>, <<"d", "q.c.d">>, <<"fn", "fn">>,
                   <<"len", "len">>, <<"os", "o">>, <<"q", "q">>,
                   <<"x", "xq">>>>, "none")
      [] id = "q.c" ->
           MkObj("module", N_qc, <<>>, Doc(<<Line(2, "")>>),
                 <<<<"Qux", "Qux">>, <<"d", "q.c.d">>>>, "none")
      [] id = "q.c.d" ->
           MkObj("module", N_qcd, <<>>, Doc(<<Line(0, ""), Line(3, "")>>),
                 <<<<"c", "q.c">>>>, "none")
      [] id = "xq" ->
           MkObj("module", N_xq, <<>>, Doc(<<Line(2, "xq doc")>>), <<>>,
                 "none")
      [] id = "o" ->
           MkObj("module", N_o, <<>>, NoDoc, <<<<"Baz", "Baz">>>>, "none")
      [] id = "Foo" ->
           MkObj("class", <<"F">>, N_q, Doc(<<Line(0, "Foo class")>>),
                 <<<<"__init__", "slot">>, <<"meth", "meth">>>>, "none")
      [] id = "Baz" ->
           MkObj("class", <<"Z">>, N_o, Doc(<<Line(0, "")>>), <<>>, "none")
      [] id = "Qux" ->
           MkObj("class", <<"Q">>, N_qc, NoDoc, <<<<"meth", "meth">>>>,
                 "none")
      [] id = "fn" ->
           MkObj("function", <<"n">>, N_q, Doc(<<Line(3, "")>>), <<>>,
                 "none")
      [] id = "len" ->
           MkObj("builtin", <<"l">>, N_builtins,
                 Doc(<<Line(0, "len doc")>>), <<>>, "none")
      [] id = "meth" ->
           MkObj("classfunc", <<"m">>, N_q, NoDoc, <<>>, "none")
      [] id = "slot" ->
           MkObj("descriptor", <<"i">>, <<>>,
                 Doc(<<Line(0, "Initialize self.")>>), <<>>, "none")
      [] id = "f" ->
           MkObj("module", N_f, <<>>, NoDoc, <<>>, "doc")
      [] id = "g" ->
           MkObj("module", N_g, <<>>, Doc(<<Line(0, "g doc")>>),
                 <<<<"Foo", "Foo">>>>, "members")
      [] id = "h" ->
           MkObj("module", N_h, <<>>, Doc(<<Line(0, "h doc")>>),
                 <<<<"K", "K">>>>, "none")
      [] id = "K" ->
           MkObj("class", <<"K">>, N_h, NoDoc, <<>>, "doc")
      [] OTHER ->
           MkObj("value", <<>>, <<>>, NoDoc, <<>>, "none")

\* the objects, by identity
Objects == [id \in ObjIds |-> ObjDef(id)]

Obj(id) == Objects[id]

\* sys.modules / the import system: the names import_module resolves
Importable == {N_p, N_q, N_f, N_g, N_h}

\* names whose import raises something other than ImportError
BrokenModules == {N_s}

ModuleOf(name) ==
    CASE name = N_p -> "pkg"
      [] name = N_q -> "q"
      [] name = N_f -> "f"
      [] name = N_g -> "g"
      [] OTHER -> "h"

\* what the host may type into the module name box
ModuleNames == {<<>>, N_p, N_q, N_f, N_g, N_h, N_z, N_s}


(***************************************************************************)
(* inspect: the predicates and getmembers.  py2 is kivy.compat.PY2: a      *)
(* function found on a class is a method under Python 2 and a plain        *)
(* function under Python 3.                                                *)
(***************************************************************************)
IsModule(o) == o.kind = "module"
IsClass(o) == o.kind = "class"
IsFunction(o, py2) == o.kind = "function" \/ (~py2 /\ o.kind = "classfunc")
IsMethod(o, py2) == py2 /\ o.kind = "classfunc"
IsRoutine(o, py2) ==
    o.kind \in {"function", "builtin", "classfunc", "descriptor"}

\* inspect.cleandoc on the lines of a docstring
Margin(ls) ==
    LET S == {ls[i].indent : i \in {j \in 2..Len(ls) : ls[j].text # ""}}
    IN  IF S = {} THEN -1 ELSE Min(S)

Dedent(ls) ==
    LET mg == Margin(ls)
    IN  [i \in 1..Len(ls) |->
           IF i = 1 THEN Line(0, ls[i].text)
           ELSE IF mg < 0 THEN ls[i]
           ELSE Line(IF ls[i].indent > mg THEN ls[i].indent - mg ELSE 0,
                     ls[i].text)]

RECURSIVE StripTrailing(_)
StripTrailing(ls) ==
    IF ls # <<>> /\ IsEmptyLine(ls[Len(ls)])
    THEN StripTrailing(SubSeq(ls, 1, Len(ls) - 1)) ELSE ls

RECURSIVE StripLeading(_)
StripLeading(ls) ==
    IF ls # <<>> /\ IsEmptyLine(ls[1]) THEN StripLeading(Tail(ls)) ELSE ls

CleanDoc(ls) == StripLeading(StripTrailing(Dedent(ls)))

NO_DOC_STR == <<Line(0, "No documentation found")>>

\* get_doc without its placeholder: inspect.getdoc(x) or ''
get_doc_NoPlaceholder(o) ==
    IF o.doc.has THEN CleanDoc(o.doc.lines) ELSE <<>>

\* get_doc = lambda self, x: inspect.getdoc(x) or NO_DOC_STR
\* (None and '' are both false; '' is the text with no line left)
get_doc(o) ==
    LET d == IF o.doc.has THEN CleanDoc(o.doc.lines) ELSE <<>>
    IN  IF d = <<>> THEN NO_DOC_STR ELSE d

\* reading the documentation of o raises
DocRaises(o) == o.fault = "doc"

\* inspect.getmembers(o, pred) raises
MembersRaise(o) == o.fault = "members"

\* pred_submodules without the test on the names: any module member
PredSubmodule_AnyModule(name, x) == IsModule(x)

\* pred_submodules of the module named name
PredSubmodule(name, x) == IsModule(x) /\ Contains(name, x.name)

\* the categories list with the first two titles exchanged
CategoryTitle_Swapped(c) == <<"Functions", "Classes", "Imported">>[c]

\* the three member categories of _create_module_node, by position
CategoryTitle(c) == <<"Classes", "Functions", "Imported">>[c]

CategoryFilter(c, name, x, py2) ==
    CASE c = 1 -> IsClass(x) /\ x.module = name
      [] c = 2 -> IsFunction(x, py2) /\ x.module = name
      [] OTHER -> (IsClass(x) \/ IsRoutine(x, py2)) /\ x.module # name

\* the filter _fill_category_node uses for the methods of a member
MethodFilter(x, py2) == IF py2 THEN IsMethod(x, py2) ELSE IsRoutine(x, py2)

Submodules(o) ==
    SelectSeq(o.members, LAMBDA e : PredSubmodule(o.name, Obj(e[2])))

CategoryMembers(o, c, py2) ==
    SelectSeq(o.members, LAMBDA e : CategoryFilter(c, o.name, Obj(e[2]), py2))

Methods(o, py2) ==
    SelectSeq(o.members, LAMBDA e : MethodFilter(Obj(e[2]), py2))

(***************************************************************************)
(* The tree view: the nodes in insertion order, each with the index of    *)
(* its parent (0: the hidden root of the TreeView).  The children of a     *)
(* node are the nodes naming it as parent, in insertion order.  old is a   *)
(* history field: the node was in the tree when a later traversal was      *)
(* accepted.                                                               *)
(***************************************************************************)
Node(t, d, p, ns, op) ==
    [text |-> t, doc |-> d, parent |-> p, no_selection |-> ns, is_open |-> op,
     old |-> FALSE]

\* add_node(ObjectInspectorLabel(...), parent)
AddNode(ns, t, d, p, nosel, op) == Append(ns, Node(t, d, p, nosel, op))

CategoryText(title, count) ==
    <<"[ ", title, " (">> \o FormatInt(count) \o <<") ]">>

\* _create_category_node counting from zero
CreateCategoryNode_CountLess(ns, title, p, count) ==
    AddNode(ns, CategoryText(title, count - 1), <<>>, p, TRUE, FALSE)

\* _create_category_node
CreateCategoryNode(ns, title, p, count) ==
    AddNode(ns, CategoryText(title, count), <<>>, p, TRUE, FALSE)

ModuleText(name) == <<"* ">> \o name

CircularSuffix == <<" (circular)">>

Children(ns, p) == SelectSeq([i \in 1..Len(ns) |-> i], LAMBDA i : ns[i].parent = p)

\* for node in self.iterate_all_nodes(): self.remove_node(node), on the
\* children of the hidden root: the loop walks the list by position while
\* each visited child is taken out of it
RECURSIVE RemoveWhileIterating(_, _)
RemoveWhileIterating(list, pos) ==
    IF pos > Len(list) THEN list
    ELSE RemoveWhileIterating(
             SubSeq(list, 1, pos - 1) \o SubSeq(list, pos + 1, Len(list)),
             pos + 1)

RECURSIVE TopAncestor(_, _)
TopAncestor(ns, i) ==
    IF ns[i].parent = 0 THEN i ELSE TopAncestor(ns, ns[i].parent)

Range(s) == {s[i] : i \in 1..Len(s)}

\* the nodes numbered keep, renumbered in order
Renumber(ns, keep) ==
    LET idx(i) == Cardinality({j \in keep : j <= i})
        nth(k) == CHOOSE i \in keep : idx(i) = k
    IN  [k \in 1..Cardinality(keep) |->
           [ns[nth(k)] EXCEPT
              !.parent = IF @ = 0 THEN 0 ELSE idx(@),
              !.old = TRUE]]

\* the tree after the clearing loop of load_documentation (lines 339-340):
\* what is still reachable from the hidden root
ClearTree(ns) ==
    LET keepOf(left) == {i \in 1..Len(ns) : TopAncestor(ns, i) \in left}
    IN  The({Renumber(ns, keep) :
               keep \in {keepOf(left) :
                  left \in {Range(RemoveWhileIterating(Children(ns, 0), 1))}}})


(***************************************************************************)
(* The generator _create_module_node(module) and the generators it         *)
(* delegates to, as a stack of frames: the suspended calls, outermost      *)
(* first.  One resumption (next(gen)) runs the top frame, and the frames   *)
(* it pushes, until a yield, the end of the outermost call (StopIteration) *)
(* or an exception, which no frame catches.                                *)
(***************************************************************************)
Frame(k, mod, p, pc, n, aux, list, i, cats) ==
    [kind |-> k, mod |-> mod, parent |-> p, pc |-> pc, node |-> n,
     aux |-> aux, list |-> list, i |-> i, cats |-> cats]

\* _create_module_node(module, parent), not started
ModuleFrame(mod, p) ==
    Frame("module", mod, p, "create", 0, 0, <<>>, 1, <<>>)

\* _fill_category_node(module, filter c, title c, parent), not started
CategoryFrame(mod, c, p) ==
    Frame("category", mod, p, "start", 0, c, <<>>, 1, <<>>)

\* the remembered root node: a reference to a node object, which outlives
\* the node's removal from the tree
NoRoot == [set |-> FALSE, doc |-> <<>>, old |-> FALSE]
RootRef(n) == [set |-> TRUE, doc |-> n.doc, old |-> FALSE]

Top(m) == m.stack[Len(m.stack)]
Pop(m) == [m EXCEPT !.stack = SubSeq(@, 1, Len(@) - 1)]
SetTop(m, fr) == [m EXCEPT !.stack[Len(m.stack)] = fr]
Raise(m) == [m EXCEPT !.stack = <<>>, !.status = "raise"]

\* _create_module_node without line 257: the name is never recorded
StepCreate_NoRecord(m) ==
    LET fr == Top(m)
        o == Obj(fr.mod)
        ns == AddNode(m.nodes, ModuleText(o.name), get_doc(o), fr.parent,
                      FALSE, fr.parent = 0)
        k == Len(ns)
        m1 == [m EXCEPT !.nodes = ns,
                        !.root = IF fr.parent = 0 THEN RootRef(ns[k]) ELSE @]
    IN  IF DocRaises(o) THEN Raise(m)
        ELSE IF o.name \in Range(m.submodules)
        THEN Pop([m1 EXCEPT !.nodes[k].text = @ \o CircularSuffix])
        ELSE [SetTop(m1, [fr EXCEPT !.pc = "subs", !.node = k])
                EXCEPT !.status = "yield"]

\* _create_module_node without the yield of line 258
StepCreate_NoYield(m) ==
    LET fr == Top(m)
        o == Obj(fr.mod)
        ns == AddNode(m.nodes, ModuleText(o.name), get_doc(o), fr.parent,
                      FALSE, fr.parent = 0)
        k == Len(ns)
        m1 == [m EXCEPT !.nodes = ns,
                        !.root = IF fr.parent = 0 THEN RootRef(ns[k]) ELSE @]
    IN  IF DocRaises(o) THEN Raise(m)
        ELSE IF o.name \in Range(m.submodules)
        THEN Pop([m1 EXCEPT !.nodes[k].text = @ \o CircularSuffix])
        ELSE [SetTop(m1, [fr EXCEPT !.pc = "subs", !.node = k])
                EXCEPT !.submodules = Append(@, o.name)]

\* lines 245-258: the module's node, the circular check, the first yield
StepCreate(m) ==
    LET fr == Top(m)
        o == Obj(fr.mod)
        ns == AddNode(m.nodes, ModuleText(o.name), get_doc(o), fr.parent,
                      FALSE, fr.parent = 0)
        k == Len(ns)
        m1 == [m EXCEPT !.nodes = ns,
                        !.root = IF fr.parent = 0 THEN RootRef(ns[k]) ELSE @]
    IN  IF DocRaises(o) THEN Raise(m)
        ELSE IF o.name \in Range(m.submodules)
        THEN Pop([m1 EXCEPT !.nodes[k].text = @ \o CircularSuffix])
        ELSE [SetTop(m1, [fr EXCEPT !.pc = "subs", !.node = k])
                EXCEPT !.submodules = Append(@, o.name), !.status = "yield"]

\* lines 261-266: the submodules and their category node
StepSubs(m) ==
    LET fr == Top(m)
        o == Obj(fr.mod)
        subs == Submodules(o)
        ns == CreateCategoryNode(m.nodes, "Submodules", fr.node, Len(subs))
    IN  IF MembersRaise(o) THEN Raise(m)
        ELSE IF subs = <<>>
        THEN SetTop(m, [fr EXCEPT !.pc = "subloop", !.list = <<>>, !.i = 1])
        ELSE SetTop([m EXCEPT !.nodes = ns],
                    [fr EXCEPT !.pc = "subloop", !.list = subs, !.i = 1,
                               !.aux = Len(ns)])

\* lines 267-281: the loop over the submodules, then the categories list,
\* which reads self.functions and self.imported
StepSubLoop(m) ==
    LET fr == Top(m)
    IN  IF fr.i <= Len(fr.list)
        THEN [SetTop(m, [fr EXCEPT !.i = @ + 1])
                EXCEPT !.stack = Append(@, ModuleFrame(fr.list[fr.i][2], fr.aux))]
        ELSE SetTop(m, [fr EXCEPT !.pc = "catloop", !.i = 1, !.list = <<>>,
                                  !.cats = <<TRUE, m.functions, m.imported>>])

\* lines 283-287: the loop over the categories
StepCatLoop(m) ==
    LET fr == Top(m)
    IN  IF fr.i > 3 THEN Pop(m)
        ELSE IF fr.cats[fr.i]
        THEN [SetTop(m, [fr EXCEPT !.i = @ + 1])
                EXCEPT !.stack = Append(@, CategoryFrame(fr.mod, fr.i, fr.node))]
        ELSE SetTop(m, [fr EXCEPT !.i = @ + 1])

\* _fill_category_node without lines 215-216: a header for no member
StepCatStart_NoEmptyCheck(m) ==
    LET fr == Top(m)
        o == Obj(fr.mod)
        members == CategoryMembers(o, fr.aux, m.py2)
        ns == CreateCategoryNode(m.nodes, CategoryTitle(fr.aux), fr.parent,
                                 Len(members))
    IN  IF MembersRaise(o) THEN Raise(m)
        ELSE SetTop([m EXCEPT !.nodes = ns],
                    [fr EXCEPT !.pc = "loop", !.list = members, !.i = 1,
                               !.node = Len(ns)])

\* lines 214-218: the members of the category and its node
StepCatStart(m) ==
    LET fr == Top(m)
        o == Obj(fr.mod)
        members == CategoryMembers(o, fr.aux, m.py2)
        ns == CreateCategoryNode(m.nodes, CategoryTitle(fr.aux), fr.parent,
                                 Len(members))
    IN  IF MembersRaise(o) THEN Raise(m)
        ELSE IF members = <<>> THEN Pop(m)
        ELSE SetTop([m EXCEPT !.nodes = ns],
                    [fr EXCEPT !.pc = "loop", !.list = members, !.i = 1,
                               !.node = Len(ns)])

\* lines 232-236: the nodes of the methods of one member, up to the first
\* method whose documentation cannot be read
RECURSIVE AddMethods(_, _, _, _)
AddMethods(ns, meths, k, p) ==
    IF k > Len(meths) THEN [nodes |-> ns, raised |-> FALSE]
    ELSE IF DocRaises(Obj(meths[k][2])) THEN [nodes |-> ns, raised |-> TRUE]
    ELSE AddMethods(AddNode(ns, <<meths[k][1]>>, get_doc(Obj(meths[k][2])),
                            p, FALSE, FALSE),
                    meths, k + 1, p)

\* lines 219-237: one member of the category, its methods, the yield
StepCatLoopMember(m) ==
    LET fr == Top(m)
        e == fr.list[fr.i]
        eo == Obj(e[2])
        ns == AddNode(m.nodes, <<e[1]>>, get_doc(eo), fr.node, FALSE, FALSE)
        r == AddMethods(ns, Methods(eo, m.py2), 1, Len(ns))
    IN  IF fr.i > Len(fr.list) THEN Pop(m)
        ELSE IF DocRaises(eo) THEN Raise(m)
        ELSE IF ~m.methods
        THEN [SetTop(m, [fr EXCEPT !.i = @ + 1])
                EXCEPT !.nodes = ns, !.status = "yield"]
        ELSE IF MembersRaise(eo) THEN Raise([m EXCEPT !.nodes = ns])
        ELSE IF r.raised THEN Raise([m EXCEPT !.nodes = r.nodes])
        ELSE [SetTop(m, [fr EXCEPT !.i = @ + 1])
                EXCEPT !.nodes = r.nodes, !.status = "yield"]

Step(m) ==
    LET fr == Top(m)
    IN  CASE fr.kind = "module" /\ fr.pc = "create" -> StepCreate(m)
          [] fr.kind = "module" /\ fr.pc = "subs" -> StepSubs(m)
          [] fr.kind = "module" /\ fr.pc = "subloop" -> StepSubLoop(m)
          [] fr.kind = "module" /\ fr.pc = "catloop" -> StepCatLoop(m)
          [] fr.kind = "category" /\ fr.pc = "start" -> StepCatStart(m)
          [] OTHER -> StepCatLoopMember(m)

\* next(gen): run to the next yield, to the end or to an exception
RECURSIVE Resume(_)
Resume(m) ==
    IF m.status # "run" THEN m
    ELSE IF m.stack = <<>> THEN [m EXCEPT !.status = "stop"]
    ELSE The({Resume(n) : n \in {Step(m)}})


(***************************************************************************)
(* The state: the ObjectInspector's properties and private fields, the     *)
(* tree, the document view, the Clock and what the last handler showed.    *)
(***************************************************************************)
VARIABLES
    module_name,       \* ObjectInspector.module_name
    functions,         \* ObjectInspector.functions
    imported,          \* ObjectInspector.imported
    methods,           \* ObjectInspector.methods
    PY2,               \* kivy.compat.PY2, fixed by the interpreter
    gen,               \* __gen: None, or the generator and its frames
    progress,          \* __progress: "None", or the popup "open"/"canceled"
    submodules,        \* __submodules
    root_module_node,  \* __root_module_node
    nodes,             \* the nodes of the tree view
    info_text,         \* info.text, the document view
    ticks,             \* _fill_tree callbacks pending on the Clock
    loads,             \* load_documentation callbacks pending on the Clock
    events             \* the calls and popups of the last handler, in order

vars == <<module_name, functions, imported, methods, PY2, gen, progress,
          submodules, root_module_node, nodes, info_text, ticks, loads,
          events>>

NoGen == [set |-> FALSE, stack |-> <<>>]

\* the fields the handlers read and write, as one record
State == [gen |-> gen, progress |-> progress, submodules |-> submodules,
          root |-> root_module_node, nodes |-> nodes, info |-> info_text,
          ticks |-> ticks, events |-> <<>>]

\* _load_complete without line 307: the document view is left as it was
LoadComplete_NoInfo(s) ==
    IF ~s.root.set
    THEN [s EXCEPT !.events = @ \o <<"_load_complete", "uncaught AttributeError">>]
    ELSE [s EXCEPT !.events = @ \o (IF s.progress # "None"
                                    THEN <<"_load_complete", "progress.complete">>
                                    ELSE <<"_load_complete">>),
                   !.progress = "None",
                   !.gen = NoGen]

\* _load_complete (lines 304-311); reading .doc of a None root raises
\* AttributeError, which nothing catches
LoadComplete(s) ==
    IF ~s.root.set
    THEN [s EXCEPT !.events = @ \o <<"_load_complete", "uncaught AttributeError">>]
    ELSE [s EXCEPT !.info = s.root.doc,
                   !.events = @ \o (IF s.progress # "None"
                                    THEN <<"_load_complete", "progress.complete">>
                                    ELSE <<"_load_complete">>),
                   !.progress = "None",
                   !.gen = NoGen]

\* the XError popup of line 301
ReportError(s) == [s EXCEPT !.events = Append(@, "XError(str(e))")]

\* the generator of s, about to be resumed
Machine(s) ==
    [stack |-> s.gen.stack, nodes |-> s.nodes, submodules |-> s.submodules,
     root |-> s.root, status |-> "run", functions |-> functions,
     imported |-> imported, methods |-> methods, py2 |-> PY2]

\* _fill_tree scheduling its next call after an exception as after a yield
AfterNext_RetryOnError(s, r) ==
    LET s1 == [s EXCEPT !.gen.stack = r.stack, !.nodes = r.nodes,
                        !.submodules = r.submodules, !.root = r.root]
    IN  IF r.status = "yield" THEN [s1 EXCEPT !.ticks = @ + 1]
        ELSE IF r.status = "stop" THEN LoadComplete(s1)
        ELSE [ReportError(s1) EXCEPT !.ticks = @ + 1]

\* _fill_tree scheduling its next call whatever next() did
AfterNext_AlwaysSchedule(s, r) ==
    LET s1 == [s EXCEPT !.gen.stack = r.stack, !.nodes = r.nodes,
                        !.submodules = r.submodules, !.root = r.root,
                        !.ticks = @ + 1]
    IN  IF r.status = "yield" THEN s1
        ELSE IF r.status = "stop" THEN LoadComplete(s1)
        ELSE LoadComplete(ReportError(s1))

\* lines 295-302, next(self.__gen) having ended as r
AfterNext(s, r) ==
    LET s1 == [s EXCEPT !.gen.stack = r.stack, !.nodes = r.nodes,
                        !.submodules = r.submodules, !.root = r.root]
    IN  IF r.status = "yield" THEN [s1 EXCEPT !.ticks = @ + 1]
        ELSE IF r.status = "stop" THEN LoadComplete(s1)
        ELSE LoadComplete(ReportError(s1))

\* _fill_tree without the test of lines 292-293
FillTreeBody_IgnoreCancel(s) ==
    IF ~s.gen.set THEN LoadComplete(ReportError(s))
    ELSE The({AfterNext(s, r) : r \in {Resume(Machine(s))}})

\* lines 292-302, in the state s; next(None) raises TypeError
FillTreeBody(s) ==
    IF s.progress = "canceled" THEN s
    ELSE IF ~s.gen.set THEN LoadComplete(ReportError(s))
    ELSE The({AfterNext(s, r) : r \in {Resume(Machine(s))}})

\* _fill_tree (lines 289-302)
FillTree(s0) ==
    The({FillTreeBody(s) : s \in {[s0 EXCEPT !.events = Append(@, "_fill_tree")]}})

\* import_module(self.module_name) succeeds
Resolves(name) == name \in Importable

\* the popup of a failed import (lines 330-335)
ImportErrorEvent(name) ==
    IF name \in BrokenModules THEN "XError(Unexpected exception)"
    ELSE "XError(str(e))"

\* load_documentation without line 338: the visited list is kept
StartTraversal_KeepVisited(s, name) ==
    [s EXCEPT !.nodes = ClearTree(@),
              !.root = [@ EXCEPT !.old = @ \/ s.root.set],
              !.progress = "open",
              !.events = Append(@, "XProgress"),
              !.gen = [set |-> TRUE, stack |-> <<ModuleFrame(ModuleOf(name), 0)>>]]

\* lines 337-348: the visited list and the tree are cleared, the progress
\* popup is opened and the generator is created
StartTraversal(s, name) ==
    [s EXCEPT !.submodules = <<>>,
              !.nodes = ClearTree(@),
              !.root = [@ EXCEPT !.old = @ \/ s.root.set],
              !.progress = "open",
              !.events = Append(@, "XProgress"),
              !.gen = [set |-> TRUE, stack |-> <<ModuleFrame(ModuleOf(name), 0)>>]]

\* the guard without its test of the generator
Refused_EmptyNameOnly == module_name = <<>>

\* the guard of line 316
Refused == module_name = <<>> \/ gen.set

\* load_documentation clearing the tree before it imports the module
LoadDocumentation_ClearFirst ==
    LET s == [State EXCEPT !.events = <<"load_documentation">>]
    IN  IF Refused THEN s
        ELSE IF ~Resolves(module_name)
        THEN [s EXCEPT !.events = Append(@, ImportErrorEvent(module_name)),
                       !.submodules = <<>>,
                       !.nodes = ClearTree(@)]
        ELSE FillTree(StartTraversal(s, module_name))

\* load_documentation (lines 313-349)
LoadDocumentationResult ==
    LET s == [State EXCEPT !.events = <<"load_documentation">>]
    IN  IF Refused THEN s
        ELSE IF ~Resolves(module_name)
        THEN [s EXCEPT !.events = Append(@, ImportErrorEvent(module_name))]
        ELSE FillTree(StartTraversal(s, module_name))

Assign(s) ==
    /\ gen' = s.gen
    /\ progress' = s.progress
    /\ submodules' = s.submodules
    /\ root_module_node' = s.root
    /\ nodes' = s.nodes
    /\ info_text' = s.info
    /\ ticks' = s.ticks
    /\ events' = s.events

Init ==
    /\ module_name \in ModuleNames
    /\ functions \in BOOLEAN
    /\ imported \in BOOLEAN
    /\ methods \in BOOLEAN
    /\ PY2 \in BOOLEAN
    /\ gen = NoGen
    /\ progress = "None"
    /\ submodules = <<>>
    /\ root_module_node = NoRoot
    /\ nodes = <<>>
    /\ info_text = <<>>
    /\ ticks = 0
    /\ loads = 1
    /\ events = <<>>

\* DocBrowser.load_doc (lines 396-400): the name in the text box becomes the
\* inspector's module_name and load_documentation is scheduled
LoadDoc ==
    /\ loads < MaxPending
    /\ \E name \in ModuleNames : module_name' = name
    /\ loads' = loads + 1
    /\ events' = <<>>
    /\ UNCHANGED <<functions, imported, methods, PY2, gen, progress,
                   submodules, root_module_node, nodes, info_text, ticks>>

\* the Clock fires load_documentation
LoadDocumentation ==
    /\ loads > 0
    /\ loads' = loads - 1
    /\ \E s \in {LoadDocumentationResult} : Assign(s)
    /\ UNCHANGED <<module_name, functions, imported, methods, PY2>>

\* the Clock fires _fill_tree
FillTreeTick ==
    /\ ticks > 0
    /\ \E s \in {FillTree([State EXCEPT !.ticks = @ - 1])} : Assign(s)
    /\ UNCHANGED <<module_name, functions, imported, methods, PY2, loads>>

\* the host cancels the progress popup (XProgress.is_canceled becomes true)
Cancel ==
    /\ progress = "open"
    /\ progress' = "canceled"
    /\ events' = <<>>
    /\ UNCHANGED <<module_name, functions, imported, methods, PY2, gen,
                   submodules, root_module_node, nodes, info_text, ticks,
                   loads>>

\* the host sets DocBrowser.functions / imported / methods, which the kv
\* rules bind to the inspector's properties (lines 127-129)
SetFunctions ==
    /\ functions' = ~functions
    /\ events' = <<>>
    /\ UNCHANGED <<module_name, imported, methods, PY2, gen, progress,
                   submodules, root_module_node, nodes, info_text, ticks,
                   loads>>

SetImported ==
    /\ imported' = ~imported
    /\ events' = <<>>
    /\ UNCHANGED <<module_name, functions, methods, PY2, gen, progress,
                   submodules, root_module_node, nodes, info_text, ticks,
                   loads>>

SetMethods ==
    /\ methods' = ~methods
    /\ events' = <<>>
    /\ UNCHANGED <<module_name, functions, imported, PY2, gen, progress,
                   submodules, root_module_node, nodes, info_text, ticks,
                   loads>>

Next ==
    \/ LoadDoc
    \/ LoadDocumentation
    \/ FillTreeTick
    \/ Cancel
    \/ SetFunctions
    \/ SetImported
    \/ SetMethods

Spec == Init /\ [][Next]_vars

\* the Clock fires every callback scheduled on it
FairSpec == Spec /\ WF_vars(FillTreeTick) /\ WF_vars(LoadDocumentation)


(***************************************************************************)
(* Reading the tree.                                                       *)
(***************************************************************************)
NodeIds == 1..Len(nodes)

\* a category header: the only nodes created with no_selection=True
IsHeader(n) == n.no_selection

\* a module node: its label starts with '* '
IsModuleNode(n) == ~IsHeader(n) /\ n.text[1] = "* "

IsCircular(n) == n.text[Len(n.text)] = " (circular)"

\* the qualified name in the label of a module node
NameOf(n) ==
    IF IsCircular(n) THEN SubSeq(n.text, 2, Len(n.text) - 1)
    ELSE SubSeq(n.text, 2, Len(n.text))

HasChildren(i) == \E j \in NodeIds : nodes[j].parent = i

\* the header with this title and count
IsCategory(n, title, count) ==
    IsHeader(n) /\ n.text = CategoryText(title, count)

\* the digits of the count in a header's label
CountDigits(n) == SubSeq(n.text, 4, Len(n.text) - 1)

\* the instance is idle over the tree of a traversal of the module name
\* that ran to the end
Completed(name) ==
    /\ ~gen.set
    /\ nodes # <<>>
    /\ nodes[1].text = ModuleText(name)
    /\ ~nodes[1].old

(***************************************************************************)
(* C2: within one traversal no module name is descended into twice: of    *)
(* the module nodes of one name, the first is the one recorded in the      *)
(* visited list and is not marked; every later one is marked               *)
(* ' (circular)' and has no child; the visited list holds each name once.  *)
(***************************************************************************)
C2_VisitedOnce ==
    /\ \A i, j \in 1..Len(submodules) :
          submodules[i] = submodules[j] => i = j
    /\ \A i \in NodeIds :
          IsModuleNode(nodes[i]) =>
             /\ NameOf(nodes[i]) \in Range(submodules)
             /\ IsCircular(nodes[i]) => ~HasChildren(i)
             /\ IsCircular(nodes[i]) <=>
                   \E j \in 1..(i - 1) :
                      /\ IsModuleNode(nodes[j])
                      /\ NameOf(nodes[j]) = NameOf(nodes[i])

\* the traversal of q has met q.c.d by two paths and q itself as a member
C2_Witness ==
    /\ \E i, j \in NodeIds :
          /\ i < j
          /\ nodes[i].text = ModuleText(N_qcd)
          /\ nodes[j].text = ModuleText(N_qcd) \o CircularSuffix
    /\ \E i \in NodeIds : nodes[i].text = ModuleText(N_q) \o CircularSuffix
    /\ \E i \in NodeIds : nodes[i].text = ModuleText(N_qc) /\ HasChildren(i)

(***************************************************************************)
(* C3 as stated: after a complete traversal of pkg (module members pkg.a   *)
(* and pkg.b, pkg.a holding pkg), the tree is the root, one header         *)
(* 'Submodules (2)', under it pkg.a marked circular without children and   *)
(* pkg.b not marked and expanded.                                          *)
(***************************************************************************)
PkgShape ==
    /\ nodes[1].parent = 0
    /\ Children(nodes, 0) = <<1>>
    /\ Children(nodes, 1) = <<2>>
    /\ IsCategory(nodes[2], "Submodules", 2)
    /\ Len(Children(nodes, 2)) = 2
    /\ Children(nodes, 2)[1] = 3
    /\ NameOf(nodes[3]) = N_pa
    /\ ~HasChildren(3)

\* pkg.b is the second submodule, not marked, with its class Bar
PkgBExpanded ==
    LET b == Children(nodes, 2)[2]
    IN  /\ nodes[b].text = ModuleText(N_pb)
        /\ Len(Children(nodes, b)) = 1
        /\ IsCategory(nodes[Children(nodes, b)[1]], "Classes", 1)
        /\ \E k \in NodeIds :
              /\ nodes[k].parent = Children(nodes, b)[1]
              /\ nodes[k].text = <<"Bar">>

C3_ScenarioA_AsStated ==
    Completed(N_p) => PkgShape /\ IsCircular(nodes[3]) /\ PkgBExpanded

(***************************************************************************)
(* C3 amended: the same tree, but pkg.a is not marked circular: it is met  *)
(* once, and pkg, whose name does not contain 'pkg.a', is not listed       *)
(* under it.                                                               *)
(***************************************************************************)
C3_ScenarioA ==
    Completed(N_p) =>
        /\ PkgShape
        /\ nodes[3].text = ModuleText(N_pa)
        /\ PkgBExpanded
        /\ \A i \in NodeIds : ~IsCircular(nodes[i])

C3_Witness == Completed(N_p) /\ "progress.complete" \in Range(events)

\* the qualified names of the module objects, and the module of each name
ModuleIds == {id \in ObjIds : IsModule(Obj(id))}

ModuleNamesKnown == {Obj(id).name : id \in ModuleIds}

ObjOfName ==
    [name \in ModuleNamesKnown |->
        CHOOSE id \in ModuleIds : Obj(id).name = name]

Title(n) == n.text[2]

Titles == {"Submodules", "Classes", "Functions", "Imported"}

\* what the filter of each header yields for each module
MembersOf ==
    [id \in ModuleIds, t \in Titles, py2 \in BOOLEAN |->
        CASE t = "Submodules" -> Submodules(Obj(id))
          [] t = "Classes" -> CategoryMembers(Obj(id), 1, py2)
          [] t = "Functions" -> CategoryMembers(Obj(id), 2, py2)
          [] OTHER -> CategoryMembers(Obj(id), 3, py2)]

\* what the filter of header i yields for the module the header is under
HeaderMembers(i) ==
    MembersOf[ObjOfName[NameOf(nodes[nodes[i].parent])], Title(nodes[i]), PY2]

(***************************************************************************)
(* C8: no category header has count zero: every header stands under a     *)
(* module for which its filter yields at least one member, and shows the   *)
(* number of those members.                                                *)
(***************************************************************************)
C8_NoEmptyCategory ==
    \A i \in NodeIds :
        IsHeader(nodes[i]) =>
            /\ CountDigits(nodes[i]) # <<"0">>
            /\ HeaderMembers(i) # <<>>
            /\ CountDigits(nodes[i]) = FormatInt(Len(HeaderMembers(i)))

\* pkg.a, a module with no class, function or imported member, has been
\* processed to the end and has no header
C8_Witness ==
    /\ Completed(N_p)
    /\ functions /\ imported
    /\ ~HasChildren(3)

(***************************************************************************)
(* C10: every node that is not a category header has a doc that is not    *)
(* the empty string: it is 'No documentation found' or the non-empty       *)
(* cleaned documentation of an object.                                     *)
(***************************************************************************)
IsEmptyText(d) == d = <<>> \/ (Len(d) = 1 /\ IsEmptyLine(d[1]))

\* the cleaned documentation texts of the objects that have one
ExtractedDocs ==
    {CleanDoc(Obj(id).doc.lines) : id \in {x \in ObjIds : Obj(x).doc.has}}

C10_DocNeverEmpty ==
    \A i \in NodeIds :
        ~IsHeader(nodes[i]) =>
            /\ ~IsEmptyText(nodes[i].doc)
            /\ nodes[i].doc = NO_DOC_STR \/ nodes[i].doc \in ExtractedDocs

\* the class Bar, which has no docstring, and the module pkg.b, whose
\* docstring is empty, are in the tree
C10_Witness ==
    /\ \E i \in NodeIds :
          nodes[i].text = <<"Bar">> /\ nodes[i].doc = NO_DOC_STR
    /\ \E i \in NodeIds :
          nodes[i].text = ModuleText(N_pb) /\ nodes[i].doc = NO_DOC_STR
    /\ \E i \in NodeIds :
          nodes[i].text = ModuleText(N_p) /\ nodes[i].doc # NO_DOC_STR


(***************************************************************************)
(* C9: under every module node the children are category headers in the   *)
(* order Submodules, Classes, Functions, Imported; every node below the    *)
(* Submodules header was inserted before the next header of the module;    *)
(* the children of a header are the first members its filter yields, in    *)
(* the order of enumeration.                                               *)
(***************************************************************************)
Rank(title) ==
    CASE title = "Submodules" -> 1
      [] title = "Classes" -> 2
      [] title = "Functions" -> 3
      [] OTHER -> 4

RECURSIVE IsBelow(_, _)
IsBelow(j, a) ==
    nodes[j].parent # 0 /\ (nodes[j].parent = a \/ IsBelow(nodes[j].parent, a))

\* the label a member entry gets under a header
EntryLabel(i, e) ==
    IF Title(nodes[i]) = "Submodules" THEN ModuleText(Obj(e[2]).name)
    ELSE <<e[1]>>

LabelOf(n) == IF IsModuleNode(n) THEN ModuleText(NameOf(n)) ELSE n.text

C9_Ordering ==
    \A i \in NodeIds :
        /\ IsModuleNode(nodes[i]) =>
              LET ch == Children(nodes, i)
              IN  /\ \A k \in 1..Len(ch) : IsHeader(nodes[ch[k]])
                  /\ \A k \in 1..(Len(ch) - 1) :
                        Rank(Title(nodes[ch[k]])) < Rank(Title(nodes[ch[k + 1]]))
                  /\ \A k \in 1..(Len(ch) - 1) : \A j \in NodeIds :
                        IsBelow(j, ch[k]) => j < ch[k + 1]
        /\ IsHeader(nodes[i]) =>
              LET ch == Children(nodes, i)
                  mem == HeaderMembers(i)
              IN  /\ Len(ch) <= Len(mem)
                  /\ \A k \in 1..Len(ch) :
                        LabelOf(nodes[ch[k]]) = EntryLabel(i, mem[k])

\* the traversal of q has made all four headers under the root, with two
\* members under Imported
C9_Witness ==
    /\ nodes # <<>>
    /\ nodes[1].text = ModuleText(N_q)
    /\ Len(Children(nodes, 1)) = 4
    /\ Len(Children(nodes, Children(nodes, 1)[4])) = 2
    /\ Len(Children(nodes, Children(nodes, 1)[1])) = 4

(***************************************************************************)
(* C4: a load_documentation call while a traversal is in flight changes    *)
(* nothing: no popup, no import error, the tree, the visited list, the     *)
(* generator, the progress popup, the root reference, the document view    *)
(* and the pending ticks are as before; and the tree never holds a node    *)
(* that was there before the current traversal was accepted.               *)
(***************************************************************************)
C4_SecondLoadIsNoOp ==
    /\ [][(LoadDocumentation /\ gen.set) =>
            /\ UNCHANGED <<gen, progress, submodules, root_module_node, nodes,
                           info_text, ticks, module_name>>
            /\ events' = <<"load_documentation">>]_vars
    /\ [](\A i \in NodeIds : ~nodes[i].old)

\* load_documentation has just been called over a half-built tree, with a
\* name that resolves to another module than the one being traversed
C4_Witness ==
    /\ events = <<"load_documentation">>
    /\ gen.set /\ gen.stack # <<>>
    /\ progress = "open"
    /\ ticks = 1
    /\ module_name = N_q
    /\ Len(nodes) > 1
    /\ nodes[1].text = ModuleText(N_p)

(***************************************************************************)
(* C5 as stated: once _fill_tree has found the progress popup cancelled,   *)
(* the generator reference is None, so that a later load_documentation is  *)
(* accepted.                                                               *)
(***************************************************************************)
CancelObserved == events = <<"_fill_tree">> /\ progress = "canceled"

C5_IdleAfterCancel == CancelObserved => ~gen.set /\ ~Refused

(***************************************************************************)
(* C6 as stated: once _fill_tree has finalized a traversal after an error  *)
(* raised by a resumption, the generator reference is None and the         *)
(* progress popup is completed and released.                               *)
(***************************************************************************)
ResumptionRaised ==
    /\ "_fill_tree" \in Range(events)
    /\ "XError(str(e))" \in Range(events)

C6_GuardClearedAfterError ==
    ResumptionRaised =>
        /\ ~gen.set
        /\ progress = "None"
        /\ "progress.complete" \in Range(events)

(***************************************************************************)
(* C7: a load_documentation call on an idle instance whose import fails    *)
(* shows exactly one XError and nothing else: _load_complete does not run, *)
(* no generator or progress popup is created, no tick is scheduled, and    *)
(* the tree, the visited list, the root reference and the document view    *)
(* are as before.                                                          *)
(***************************************************************************)
ImportFails == LoadDocumentation /\ ~Refused /\ ~Resolves(module_name)

C7_FailedImportLeavesState ==
    [][ImportFails =>
          /\ events' \in {<<"load_documentation", "XError(str(e))">>,
                          <<"load_documentation", "XError(Unexpected exception)">>}
          /\ ~gen'.set
          /\ progress' = "None"
          /\ UNCHANGED <<gen, progress, submodules, root_module_node, nodes,
                         info_text, ticks, module_name>>]_vars

\* an import has just failed over the tree of an earlier traversal
C7_Witness ==
    /\ events = <<"load_documentation", "XError(str(e))">>
    /\ module_name = N_z
    /\ Completed(N_p)
    /\ submodules # <<>>

(***************************************************************************)
(* The steps that resume the generator, and how the resumption ended.      *)
(***************************************************************************)
\* load_documentation is called and accepts the traversal
Accepted == LoadDocumentation /\ ~Refused /\ Resolves(module_name)

\* a tick calls _fill_tree, which resumes the generator
ResumingTick == FillTreeTick /\ progress # "canceled" /\ gen.set

Resumed == Accepted \/ ResumingTick

\* the tree and the visited list the resumption starts from
NodesBefore == IF Accepted THEN <<>> ELSE nodes
SubmodulesBefore == IF Accepted THEN <<>> ELSE submodules

Suspended == Resumed /\ "_load_complete" \notin Range(events')
Raised == Resumed /\ "XError(str(e))" \in Range(events')
Exhausted == Resumed /\ ~Suspended /\ ~Raised

(***************************************************************************)
(* C11: a resumption that exhausts the generator runs _load_complete       *)
(* once and shows no XError; the document view becomes the doc of the     *)
(* root node, which is the first node of the tree built by this traversal *)
(* and not a node of an earlier one; the generator and the progress popup  *)
(* are released and no tick is left pending, so that _load_complete does   *)
(* not run for this traversal again.                                       *)
(***************************************************************************)
C11_CompletesOnce ==
    [][Exhausted =>
          /\ events' = <<"_fill_tree", "_load_complete", "progress.complete">>
          /\ nodes' # <<>>
          /\ nodes'[1].parent = 0 /\ ~nodes'[1].old
          /\ IsModuleNode(nodes'[1]) /\ ~IsCircular(nodes'[1])
          /\ root_module_node' = RootRef(nodes'[1])
          /\ info_text' = nodes'[1].doc
          /\ ~gen'.set /\ progress' = "None" /\ ticks' = 0]_vars

\* a traversal of q has just run to its end, showing the doc of q, after
\* an earlier traversal had shown another text
C11_Witness ==
    /\ events = <<"_fill_tree", "_load_complete", "progress.complete">>
    /\ Completed(N_q)
    /\ info_text = get_doc(Obj(ModuleOf(N_q)))
    /\ submodules[1] = N_q

(***************************************************************************)
(* The whole traversal of a module under one fixed inclusion               *)
(* configuration: the generator resumed from its creation to its end.      *)
(***************************************************************************)
RECURSIVE RunToEnd(_)
RunToEnd(m) ==
    IF m.status \in {"stop", "raise"} THEN m
    ELSE The({RunToEnd(r) : r \in {Resume([m EXCEPT !.status = "run"])}})

TraversalOf(name, f, i, mt, py2) ==
    RunToEnd([stack |-> <<ModuleFrame(ModuleOf(name), 0)>>, nodes |-> <<>>,
              submodules |-> <<>>, root |-> NoRoot, status |-> "run",
              functions |-> f, imported |-> i, methods |-> mt, py2 |-> py2])

\* the trees of the traversals that run to the end, by module name and
\* configuration
UniformTrees ==
    [name \in Importable |->
       [c \in BOOLEAN \X BOOLEAN \X BOOLEAN \X BOOLEAN |->
          TraversalOf(name, c[1], c[2], c[3], c[4])]]

(***************************************************************************)
(* C12 as stated: the inclusion configuration of a traversal is the one    *)
(* read at its start, so the tree of a traversal that ran to its end is    *)
(* the tree of that module under one configuration, whatever the host did  *)
(* to the flags meanwhile.                                                 *)
(***************************************************************************)
C12_ConfigurationReadAtStart ==
    (events = <<"_fill_tree", "_load_complete", "progress.complete">>) =>
        \E f, i, mt \in BOOLEAN :
            LET t == UniformTrees[NameOf(nodes[1])][<<f, i, mt, PY2>>]
            IN  t.status = "stop" /\ t.nodes = nodes

(***************************************************************************)
(* C13: once _fill_tree has found the progress popup cancelled, the        *)
(* generator is not resumed and no tick is scheduled: the observing call   *)
(* and every later step leave the tree, the visited list and the           *)
(* generator as they are, with no tick pending.                            *)
(***************************************************************************)
C13_FrozenAfterCancel ==
    /\ [][(FillTreeTick /\ progress = "canceled") =>
            /\ events' = <<"_fill_tree">>
            /\ ticks' = 0
            /\ UNCHANGED <<nodes, submodules, gen, root_module_node,
                           info_text, progress>>]_vars
    /\ [][(progress = "canceled" /\ ticks = 0) =>
            /\ ticks' = 0
            /\ UNCHANGED <<nodes, submodules, gen, root_module_node,
                           info_text, progress>>]_vars

\* a load_documentation call after the cancellation of a traversal of q
\* was observed, over its partial tree
C13_Witness ==
    /\ progress = "canceled" /\ ticks = 0
    /\ events = <<"load_documentation">>
    /\ gen.set /\ gen.stack # <<>>
    /\ Len(nodes) > 2
    /\ nodes[1].text = ModuleText(N_q)

(***************************************************************************)
(* The suspension units of one resumption: the nodes it added, the module  *)
(* names it recorded.                                                      *)
(***************************************************************************)
NewIds == (Len(NodesBefore) + 1)..Len(nodes')

\* the new nodes of category members: under a header, not module nodes
NewMembers ==
    {i \in NewIds : /\ ~IsHeader(nodes'[i]) /\ ~IsModuleNode(nodes'[i])
                    /\ nodes'[i].parent # 0
                    /\ IsHeader(nodes'[nodes'[i].parent])}

\* the new module nodes that are not marked circular
NewModules ==
    {i \in NewIds : IsModuleNode(nodes'[i]) /\ ~IsCircular(nodes'[i])}

\* the new nodes of methods: under a member
NewMethods ==
    {i \in NewIds : /\ ~IsHeader(nodes'[i]) /\ ~IsModuleNode(nodes'[i])
                    /\ nodes'[i].parent # 0
                    /\ ~IsHeader(nodes'[nodes'[i].parent])}

RecordsOneModule ==
    /\ Len(submodules') = Len(SubmodulesBefore) + 1
    /\ SubSeq(submodules', 1, Len(SubmodulesBefore)) = SubmodulesBefore
    /\ Cardinality(NewModules) = 1
    /\ \A i \in NewModules :
          /\ NameOf(nodes'[i]) = submodules'[Len(submodules')]
          /\ i = Len(nodes')
    /\ NewMembers = {} /\ NewMethods = {}

InsertsOneMember ==
    /\ submodules' = SubmodulesBefore
    /\ NewModules = {}
    /\ Cardinality(NewMembers) = 1
    /\ \A i \in NewMembers :
          /\ \A j \in NewMethods : nodes'[j].parent = i /\ j > i
          /\ \A j \in NewIds : j > i => j \in NewMethods
          /\ ~methods => NewMethods = {}

OneUnit ==
    /\ Len(nodes') >= Len(NodesBefore)
    /\ SubSeq(nodes', 1, Len(NodesBefore)) = NodesBefore
    /\ RecordsOneModule \/ InsertsOneMember

(***************************************************************************)
(* C14 as stated: every resumption that does not exhaust the generator     *)
(* performs exactly one suspension unit.                                   *)
(***************************************************************************)
C14_OneUnit_AsStated == [][(Resumed /\ ~Exhausted) => OneUnit]_vars

(***************************************************************************)
(* C14: every resumption that ends in a suspension performs exactly one    *)
(* suspension unit, and it is the last thing it does: it either records    *)
(* one new module name, whose node is the last one added, or inserts one   *)
(* category member node followed by nothing but that member's method       *)
(* nodes (none when methods is off), never both and never two of either;  *)
(* the other nodes it adds are headers and circular-marked module nodes.   *)
(***************************************************************************)
C14_OneUnit == [][Suspended => OneUnit]_vars

\* a resumption has just added a circular-marked module node, a header
\* and one member with a method node, and is suspended
C14_Witness ==
    /\ events = <<"_fill_tree">>
    /\ progress = "open" /\ gen.set /\ ticks = 1
    /\ \E i, j, k \in NodeIds :
          /\ i < j /\ j < k /\ k = Len(nodes)
          /\ IsModuleNode(nodes[i]) /\ IsCircular(nodes[i])
          /\ IsHeader(nodes[j])
          /\ nodes[k].parent # 0 /\ nodes[nodes[k].parent].parent = j

(***************************************************************************)
(* C15: a resumption that raises shows XError once, with str(e); the       *)
(* nodes inserted before it stay in the tree, those of the raising         *)
(* resumption included; no tick is scheduled and the generator has no      *)
(* frame left, and a generator without frames is never resumed, so the     *)
(* traversal shows no second XError.                                       *)
(***************************************************************************)
XErrorCount == Cardinality({k \in 1..Len(events') : events'[k] = "XError(str(e))"})

C15_ErrorReportedOnce ==
    /\ [][Raised =>
            /\ XErrorCount = 1
            /\ "XError(Unexpected exception)" \notin Range(events')
            /\ Len(nodes') >= Len(NodesBefore)
            /\ SubSeq(nodes', 1, Len(NodesBefore)) = NodesBefore
            /\ SubSeq(submodules', 1, Len(SubmodulesBefore)) = SubmodulesBefore
            /\ ticks' = 0
            /\ gen'.stack = <<>>]_vars
    /\ [][(gen.stack = <<>>) => ~ResumingTick]_vars

\* the traversal of h has just raised at the documentation of its class K:
\* the module node and the header of K's category are in the tree
C15_Witness ==
    /\ events = <<"_fill_tree", "XError(str(e))", "_load_complete",
                  "progress.complete">>
    /\ Len(nodes) = 2
    /\ nodes[1].text = ModuleText(N_h)
    /\ IsCategory(nodes[2], "Classes", 1)
    /\ ticks = 0 /\ ~gen.set

(***************************************************************************)
(* C16 as stated: a module node under a Submodules header has a qualified  *)
(* name that starts with the qualified name of the module the header is    *)
(* under.                                                                  *)
(***************************************************************************)
C16_SubmoduleNameIsPrefixed ==
    \A i \in NodeIds :
        (IsModuleNode(nodes[i]) /\ nodes[i].parent # 0) =>
            StartsWith(NameOf(nodes[i]),
                       NameOf(nodes[nodes[nodes[i].parent].parent]))

(***************************************************************************)
(* C17 as stated: in the modules f and h nothing fails but the reading of  *)
(* a documentation text (of the module f itself, of the class K of h), so  *)
(* their traversals show no XError: not at the call that accepts them and  *)
(* not at a later tick.                                                    *)
(***************************************************************************)
DocFaultOnly == {N_f, N_h}

C17_DocFailureAbsorbed ==
    /\ [][(Accepted /\ module_name \in DocFaultOnly) => ~Raised]_vars
    /\ []((nodes # <<>> /\ NameOf(nodes[1]) \in DocFaultOnly) =>
             ~ResumptionRaised)

(***************************************************************************)
(* C18: the call that accepts a traversal leaves no node of an earlier     *)
(* traversal in the tree and no earlier name in the visited list: after    *)
(* it the tree is the new root module node alone, unmarked, and the        *)
(* visited list is that module's name alone (both are empty when the       *)
(* first resumption raised); and at all times every visited name is the    *)
(* name of an unmarked module node of the current tree.                    *)
(***************************************************************************)
C18_CleanStart ==
    /\ [][Accepted =>
            \/ /\ Raised
               /\ nodes' = <<>> /\ submodules' = <<>>
            \/ /\ Suspended
               /\ submodules' = <<module_name>>
               /\ Len(nodes') = 1
               /\ nodes'[1] = Node(ModuleText(module_name),
                                   get_doc(Obj(ModuleOf(module_name))),
                                   0, FALSE, TRUE)]_vars
    /\ [](\A k \in 1..Len(submodules) :
             \E i \in NodeIds :
                 /\ IsModuleNode(nodes[i]) /\ ~IsCircular(nodes[i])
                 /\ ~nodes[i].old
                 /\ NameOf(nodes[i]) = submodules[k])

\* a traversal of q has just been accepted after one of pkg had run to
\* its end: the document view still shows the doc of pkg
C18_Witness ==
    /\ events = <<"load_documentation", "XProgress", "_fill_tree">>
    /\ info_text = get_doc(Obj(ModuleOf(N_p)))
    /\ submodules = <<N_q>>
    /\ Len(nodes) = 1
    /\ nodes[1].text = ModuleText(N_q)

(***************************************************************************)
(* C19: the count in a header's label is never less than the number of     *)
(* the header's children, and when a traversal has run to its end the two  *)
(* are equal for every header of the tree.                                 *)
(***************************************************************************)
CountLabels == [c \in 0..20 |-> FormatInt(c)]

\* the count a header's label shows
LabelCount(n) == CHOOSE c \in 0..20 : CountLabels[c] = CountDigits(n)

ChildCount(i) == Cardinality({j \in NodeIds : nodes[j].parent = i})

C19_CountNeverUnderstates ==
    /\ \A i \in NodeIds :
          IsHeader(nodes[i]) => ChildCount(i) <= LabelCount(nodes[i])
    /\ (events = <<"_fill_tree", "_load_complete", "progress.complete">>) =>
          \A i \in NodeIds :
              IsHeader(nodes[i]) => ChildCount(i) = LabelCount(nodes[i])

\* the traversal of q has run to its end: the Submodules header of q
\* shows 4 and has four children, two of them marked circular
C19_Witness ==
    /\ events = <<"_fill_tree", "_load_complete", "progress.complete">>
    /\ nodes[1].text = ModuleText(N_q)
    /\ IsCategory(nodes[2], "Submodules", 4)
    /\ ChildCount(2) = 4
    /\ Cardinality({j \in NodeIds : nodes[j].parent = 2
                                     /\ IsCircular(nodes[j])}) = 2

(***************************************************************************)
(* C20: at most one _fill_tree tick is pending, and only while a           *)
(* traversal is in flight: the generator reference is set and the          *)
(* generator has neither finished nor raised.                              *)
(***************************************************************************)
C20_TickOnlyInFlight ==
    /\ ticks <= 1
    /\ ticks > 0 => (gen.set /\ gen.stack # <<>> /\ progress # "None")

\* a tick is pending in the middle of a traversal
C20_Witness ==
    /\ ticks = 1
    /\ gen.set /\ Len(gen.stack) > 1
    /\ Len(nodes) > 2

(***************************************************************************)
(* C1 as stated: an accepted traversal that the host does not cancel       *)
(* reaches finalization: the generator reference becomes None.             *)
(***************************************************************************)
C1_TraversalFinalizes ==
    (gen.set /\ progress # "canceled") ~> (~gen.set \/ progress = "canceled")

\* the same in a form a finite run decides: only a _fill_tree tick resumes
\* or finalizes a traversal, so one that the host has not cancelled must
\* have a tick pending for as long as the generator reference is set
C1_NextResumptionPending ==
    (gen.set /\ progress # "canceled") => ticks > 0

====
